---- MODULE Spec2Model ----
(***************************************************************************)
(* DataStore (thread_safe_storage/storage.py): a hash table with separate  *)
(* chaining, keyed by the SHA-256 digest of the key, with growth on insert *)
(* and a lock taken by insert/update/delete/search/iterate when the class  *)
(* flag _is_multithreading is set.                                         *)
(*                                                                         *)
(* Every thread runs a stack of frames, one per active call: insert calls  *)
(* resize, and resize calls insert for every node it rehashes.  One step   *)
(* of the model is one statement group of the source (the line numbers are *)
(* given with every action).  A chain is the sequence of its nodes from    *)
(* the bucket head on; the empty chain is the head None.  The dict _cache  *)
(* is the sequence of its items in insertion order.  The part "The Node    *)
(* objects" gives every Node an identity and keeps next as a reference.    *)
(***************************************************************************)
EXTENDS Integers, Sequences, FiniteSets, TLC

VARIABLES
  cache,              \* DataStore._cache: <<[digest, chain]>> in insertion order
  capacity,           \* DataStore._capacity
  lock,               \* DataStore._lock: TRUE when locked
  is_multithreading,  \* DataStore._is_multithreading, fixed when the class is created
  sha256,             \* the digest of every key (hashlib.sha256, fixed)
  active,             \* the threads that call the table
  stack,              \* per thread: its call frames, innermost last
  pre,                \* in single-threaded use: cache and capacity when the running call began
  written,            \* per key: value of the latest successful insert/update, 0 after delete
  deleted,            \* keys deleted successfully and not inserted again since
  calls,              \* number of top-level calls made when several threads run
  heap,               \* the Node objects by identity: id -> [key, value, next], next 0 for None
  heads               \* DataStore._cache with the objects named: <<[digest, head]>>, head 0 for None

vars == <<cache, capacity, lock, is_multithreading, sha256, active, stack,
          pre, written, deleted, calls, heap, heads>>

----------------------------------------------------------------------------
(* Bounds of the exploration *)

\* largest capacity given to the constructor and to resize by a caller
MaxCapacity == 2
\* top-level calls explored when more than one thread runs
MaxCalls == 2

Threads == {"t1", "t2"}
Keys == {"a", "b", "c", "d"}
Digests == {"d1", "d2", "d3"}
Values == {1, 2}
\* the value None of a search result, of a missing argument
None == 0

\* The digest functions explored, each on the keys its callers use: one
\* without collision, and one with three keys in one bucket beside a bucket
\* of its own for the fourth.
HashFuncs ==
  { [k \in {"a", "b", "c"} |-> CASE k = "a" -> "d1" [] k = "b" -> "d2" [] OTHER -> "d3"],
    [k \in Keys |-> IF k = "d" THEN "d2" ELSE "d1"] }

\* the keys the callers pass
CallerKeys == DOMAIN sha256

----------------------------------------------------------------------------
(* Node and chains *)

Node(key, value) == [key |-> key, value |-> value]

RECURSIVE ChainFind(_, _)
\* index of the first node of the chain with this key, 0 when there is none
ChainFind(chain, key) ==
  IF chain = << >> THEN 0
  ELSE IF Head(chain).key = key THEN 1
  ELSE LET r == ChainFind(Tail(chain), key) IN IF r = 0 THEN 0 ELSE r + 1

(* The dict _cache *)

DictIndex(d, h) ==
  IF \E i \in 1..Len(d) : d[i].digest = h
  THEN CHOOSE i \in 1..Len(d) : d[i].digest = h
  ELSE 0

\* d[h]
DictGet(d, h) == d[DictIndex(d, h)].chain

\* d[h] = chain
DictPut(d, h, chain) ==
  IF DictIndex(d, h) = 0
  THEN Append(d, [digest |-> h, chain |-> chain])
  ELSE [d EXCEPT ![DictIndex(d, h)].chain = chain]

\* DataStore.size
size == Len(cache)

\* DataStore.hash_func
hash_func(key) == sha256[key]

\* DataStore.contains: membership of its argument in the dict
contains(x) == DictIndex(cache, x) # 0

----------------------------------------------------------------------------
(* Pure parts of the operations *)

\* a growth that keeps the capacity
GrowCapacitySame(c) == c

\* the growth rounded down instead of up
GrowCapacityFloor(c) == (3 * c) \div 2

\* insert, line 89: math.ceil(self.capacity * 1.5)
GrowCapacity(c) == (3 * c + 1) \div 2

\* the check of resize with < in place of <=
ResizeRejectsNegative(new_capacity) == new_capacity < 0

\* resize, line 69: the capacities resize refuses
ResizeRejects(new_capacity) == new_capacity <= 0

\* a rehash that takes the head of every bucket and does not follow next
ChainHeadOnly(chain) ==
  IF chain = << >> THEN << >>
  ELSE <<[key |-> Head(chain).key, value |-> Head(chain).value]>>

RECURSIVE ChainNodes(_)
\* resize, lines 77-79: the (key, value) pairs met by "while node: ... node.next"
ChainNodes(chain) ==
  IF chain = << >> THEN << >>
  ELSE <<Node(Head(chain).key, Head(chain).value)>> \o ChainNodes(Tail(chain))

\* a rehash that stops after the first bucket
RehashFirstBucket(d) ==
  IF d = << >> THEN << >> ELSE ChainNodes(Head(d).chain)

RECURSIVE RehashNodes(_)
\* resize, lines 72 and 76-79: every node of every chain of the old dict, in
\* the order of the dict's values and, in a chain, from the head on
RehashNodes(d) ==
  IF d = << >> THEN << >>
  ELSE ChainNodes(Head(d).chain) \o RehashNodes(Tail(d))

\* insert, lines 91-113: what the walk over the bucket decides
InsertWalk(d, h, key) ==
  IF DictIndex(d, h) = 0 THEN "new"
  ELSE IF DictGet(d, h) = << >> THEN "AttributeError"   \* print(cur_node.key) on None
  ELSE IF ChainFind(DictGet(d, h), key) # 0 THEN "DuplicateKey"
  ELSE "chain"

\* an insert that links the new node behind the last node of the chain
InsertStoreDictTail(d, h, key, value, chained) ==
  DictPut(d, h, (IF chained THEN DictGet(d, h) ELSE << >>) \o <<Node(key, value)>>)

\* insert, lines 115-117: node.next = self.cache[hash_key] when the bucket
\* was there at line 91, then self.cache[hash_key] = node
InsertStoreDict(d, h, key, value, chained) ==
  DictPut(d, h, <<Node(key, value)>> \o (IF chained THEN DictGet(d, h) ELSE << >>))

\* an update that overwrites the head of the bucket without comparing keys
ChainUpdateHead(chain, key, value) ==
  [chain EXCEPT ![1].value = value]

\* update, lines 126-130: the value of the first node with the key is overwritten
ChainUpdate(chain, key, value) ==
  [chain EXCEPT ![ChainFind(chain, key)].value = value]

\* delete, lines 141-150: the first node with the key is unlinked, from its
\* predecessor or, when it is the head, from the dict entry
ChainDelete(chain, key) ==
  LET i == ChainFind(chain, key) IN
  SubSeq(chain, 1, i - 1) \o SubSeq(chain, i + 1, Len(chain))

\* a delete that unlinks the head of the bucket before it compares keys
DeleteOutcomeUnlinkFirst(d, h, key) ==
  IF DictIndex(d, h) = 0 THEN [cache |-> d, error |-> "KeyError"]
  ELSE IF DictGet(d, h) = << >> THEN [cache |-> d, error |-> "KeyNotFound"]
  ELSE IF ChainFind(DictGet(d, h), key) = 0
  THEN [cache |-> DictPut(d, h, Tail(DictGet(d, h))), error |-> "KeyNotFound"]
  ELSE [cache |-> DictPut(d, h, ChainDelete(DictGet(d, h), key)), error |-> ""]

\* delete, lines 136-152: the dict the call leaves and the error it raises,
\* "" when it returns
DeleteOutcome(d, h, key) ==
  IF DictIndex(d, h) = 0
  THEN [cache |-> d, error |-> "KeyError"]             \* self.cache[hash_key], line 138
  ELSE IF ChainFind(DictGet(d, h), key) = 0
  THEN [cache |-> d, error |-> "KeyNotFound"]
  ELSE [cache |-> DictPut(d, h, ChainDelete(DictGet(d, h), key)), error |-> ""]

\* search, lines 158-163: the value of the node found, None without one
SearchValue(d, h, key) ==
  IF DictIndex(d, h) = 0 THEN None
  ELSE LET chain == DictGet(d, h)
           i == ChainFind(chain, key)
       IN IF i = 0 THEN None ELSE chain[i].value

----------------------------------------------------------------------------
(* Calls *)

\* the operations that run inside "with self._lock if self._is_multithreading"
LockedOps == {"insert", "update", "delete", "search", "iterate"}

\* A frame is one active call: its arguments, its position, the locals
\* "nodes" (resize) and "chained" (insert: the bucket was there at line 91),
\* and, at its return or raise statement, what it returns or raises.
Frame(proc, pc, key, value, n) ==
  [proc |-> proc, pc |-> pc, key |-> key, value |-> value, n |-> n,
   nodes |-> << >>, chained |-> FALSE, result |-> None, error |-> ""]

FirstPc(proc) ==
  CASE proc \in LockedOps -> "acquire"
    [] proc = "resize" -> "check"
    [] OTHER -> "body"

Top(t) == stack[t][Len(stack[t])]

AtPc(t, proc, pc) ==
  /\ t \in active
  /\ stack[t] # << >>
  /\ Top(t).proc = proc
  /\ Top(t).pc = pc

\* an exception that leaves the "with" block without its __exit__
HoldsLockNever(t) == FALSE

\* the thread is inside a "with" block that holds the lock
HoldsLock(t) ==
  /\ is_multithreading
  /\ \E i \in 1..Len(stack[t]) :
       stack[t][i].proc \in LockedOps /\ stack[t][i].pc # "acquire"

SetTop(t, f) == stack' = [stack EXCEPT ![t][Len(stack[t])] = f]

Push(t, f, g) ==
  stack' = [stack EXCEPT ![t] = Append([@ EXCEPT ![Len(@)] = f], g)]

\* the innermost call reaches a return statement
Returns(t, result) == SetTop(t, [Top(t) EXCEPT !.pc = "return", !.result = result])

\* the innermost call reaches a raise statement, or a statement of it fails
Raises(t, error) == SetTop(t, [Top(t) EXCEPT !.pc = "raise", !.error = error])

NoCall == [cache |-> << >>, capacity |-> 0]

\* what a top-level call that ends leaves in the history
Record(t, ok) ==
  LET call == stack[t][1] IN
  /\ pre' = [pre EXCEPT ![t] = NoCall]
  /\ written' =
       IF ok /\ call.proc \in {"insert", "update"}
       THEN [written EXCEPT ![call.key] = call.value]
       ELSE IF ok /\ call.proc = "delete"
       THEN [written EXCEPT ![call.key] = None]
       ELSE written
  /\ deleted' =
       IF ok /\ call.proc = "insert" THEN deleted \ {call.key}
       ELSE IF ok /\ call.proc = "delete" THEN deleted \cup {call.key}
       ELSE deleted

\* what no statement of a call changes; the specifications of this part
\* follow the chains as sequences and leave the object view alone
Fixed == UNCHANGED <<is_multithreading, sha256, active, heap, heads>>

----------------------------------------------------------------------------
(* A caller starts an operation *)

Begin(t, op, key, value, n) ==
  /\ t \in active
  /\ stack[t] = << >>
  /\ Cardinality(active) = 1 \/ calls < MaxCalls
  /\ stack' = [stack EXCEPT ![t] = <<Frame(op, FirstPc(op), key, value, n)>>]
  /\ pre' = IF Cardinality(active) = 1
            THEN [pre EXCEPT ![t] = [cache |-> cache, capacity |-> capacity]]
            ELSE pre
  /\ calls' = IF Cardinality(active) = 1 THEN calls ELSE calls + 1
  /\ UNCHANGED <<cache, capacity, lock, written, deleted>>
  /\ Fixed

CallInsert(t) == \E k \in CallerKeys, v \in Values : Begin(t, "insert", k, v, 0)

CallUpdate(t) == \E k \in CallerKeys, v \in Values : Begin(t, "update", k, v, 0)

CallDelete(t) == \E k \in CallerKeys : Begin(t, "delete", k, None, 0)

CallSearch(t) == \E k \in CallerKeys : Begin(t, "search", k, None, 0)

\* a caller passes a key; the digests are strings too, and insert and search
\* pass them
CallContains(t) == \E x \in CallerKeys \cup Digests : Begin(t, "contains", x, None, 0)

CallResize(t) == \E n \in -1..MaxCapacity : Begin(t, "resize", "", None, n)

CallIterate(t) == Begin(t, "iterate", "", None, 0)

----------------------------------------------------------------------------
(* The statements *)

\* lines 84, 121, 135, 155, 166: with self._lock if self._is_multithreading
\* else nullcontext().  threading.Lock is not reentrant: the thread waits
\* while the lock is held, whoever holds it.
Acquire(t) ==
  /\ t \in active
  /\ stack[t] # << >>
  /\ Top(t).pc = "acquire"
  /\ is_multithreading => ~lock
  /\ lock' = (is_multithreading \/ lock)
  /\ SetTop(t, [Top(t) EXCEPT !.pc = IF Top(t).proc = "insert" THEN "size" ELSE "body"])
  /\ UNCHANGED <<cache, capacity, pre, written, deleted, calls>>
  /\ Fixed

\* insert, lines 85-89
InsertSize(t) ==
  /\ AtPc(t, "insert", "size")
  /\ IF size = capacity
     THEN Push(t, [Top(t) EXCEPT !.pc = "lookup"],
               Frame("resize", "check", "", None, GrowCapacity(capacity)))
     ELSE SetTop(t, [Top(t) EXCEPT !.pc = "lookup"])
  /\ UNCHANGED <<cache, capacity, lock, pre, written, deleted, calls>>
  /\ Fixed

\* insert, lines 91-113
InsertLookup(t) ==
  /\ AtPc(t, "insert", "lookup")
  /\ LET w == InsertWalk(cache, hash_func(Top(t).key), Top(t).key) IN
     IF w \in {"AttributeError", "DuplicateKey"}
     THEN Raises(t, w)
     ELSE SetTop(t, [Top(t) EXCEPT !.pc = "store", !.chained = (w = "chain")])
  /\ UNCHANGED <<cache, capacity, lock, pre, written, deleted, calls>>
  /\ Fixed

\* insert, lines 115-118
InsertStore(t) ==
  /\ AtPc(t, "insert", "store")
  /\ LET f == Top(t)
         h == hash_func(f.key)
     IN IF f.chained /\ ~contains(h)
        THEN Raises(t, "KeyError") /\ UNCHANGED cache     \* self.cache[hash_key], line 115
        ELSE /\ cache' = InsertStoreDict(cache, h, f.key, f.value, f.chained)
             /\ Returns(t, f.value)
  /\ UNCHANGED <<capacity, lock, pre, written, deleted, calls>>
  /\ Fixed

\* resize, lines 69-70
ResizeCheck(t) ==
  /\ AtPc(t, "resize", "check")
  /\ IF ResizeRejects(Top(t).n)
     THEN Raises(t, "InvalidCapacity")
     ELSE SetTop(t, [Top(t) EXCEPT !.pc = "setcap"])
  /\ UNCHANGED <<cache, capacity, lock, pre, written, deleted, calls>>
  /\ Fixed

\* resize, lines 72-73
ResizeSetCapacity(t) ==
  /\ AtPc(t, "resize", "setcap")
  /\ capacity' = Top(t).n
  /\ SetTop(t, [Top(t) EXCEPT !.pc = "reset"])
  /\ UNCHANGED <<cache, lock, pre, written, deleted, calls>>
  /\ Fixed

\* resize, line 74: from here on the old dict is reached only through the
\* view "nodes" taken at line 72
ResizeReset(t) ==
  /\ AtPc(t, "resize", "reset")
  /\ cache' = << >>
  /\ SetTop(t, [Top(t) EXCEPT !.pc = "loop", !.nodes = RehashNodes(cache)])
  /\ UNCHANGED <<capacity, lock, pre, written, deleted, calls>>
  /\ Fixed

\* resize, lines 76-81
ResizeLoop(t) ==
  /\ AtPc(t, "resize", "loop")
  /\ IF Top(t).nodes = << >>
     THEN Returns(t, None)
     ELSE Push(t, [Top(t) EXCEPT !.nodes = Tail(@)],
               Frame("insert", "acquire",
                     Head(Top(t).nodes).key, Head(Top(t).nodes).value, 0))
  /\ UNCHANGED <<cache, capacity, lock, pre, written, deleted, calls>>
  /\ Fixed

\* update, lines 122-132
UpdateBody(t) ==
  /\ AtPc(t, "update", "body")
  /\ LET f == Top(t)
         h == hash_func(f.key)
     IN IF ~contains(h)
        THEN Raises(t, "KeyError") /\ UNCHANGED cache     \* self.cache[hash_key], line 124
        ELSE IF ChainFind(DictGet(cache, h), f.key) = 0
        THEN Raises(t, "KeyNotFound") /\ UNCHANGED cache
        ELSE /\ cache' = DictPut(cache, h, ChainUpdate(DictGet(cache, h), f.key, f.value))
             /\ Returns(t, f.value)
  /\ UNCHANGED <<capacity, lock, pre, written, deleted, calls>>
  /\ Fixed

\* delete, lines 136-152
DeleteBody(t) ==
  /\ AtPc(t, "delete", "body")
  /\ LET o == DeleteOutcome(cache, hash_func(Top(t).key), Top(t).key) IN
       /\ cache' = o.cache
       /\ IF o.error = "" THEN Returns(t, None) ELSE Raises(t, o.error)
  /\ UNCHANGED <<capacity, lock, pre, written, deleted, calls>>
  /\ Fixed

\* search, lines 156-163
SearchBody(t) ==
  /\ AtPc(t, "search", "body")
  /\ Returns(t, SearchValue(cache, hash_func(Top(t).key), Top(t).key))
  /\ UNCHANGED <<cache, capacity, lock, pre, written, deleted, calls>>
  /\ Fixed

\* contains, line 66: 1 for True, 0 for False
ContainsBody(t) ==
  /\ AtPc(t, "contains", "body")
  /\ Returns(t, IF contains(Top(t).key) THEN 1 ELSE 0)
  /\ UNCHANGED <<cache, capacity, lock, pre, written, deleted, calls>>
  /\ Fixed

\* iterate, line 167: the iterator is handed out, nothing is read yet
IterateBody(t) ==
  /\ AtPc(t, "iterate", "body")
  /\ Returns(t, None)
  /\ UNCHANGED <<cache, capacity, lock, pre, written, deleted, calls>>
  /\ Fixed

\* the innermost call returns to its caller; leaving a "with" block
\* releases the lock
Return(t) ==
  /\ t \in active
  /\ stack[t] # << >>
  /\ Top(t).pc = "return"
  /\ stack' = [stack EXCEPT ![t] = SubSeq(@, 1, Len(@) - 1)]
  /\ lock' = IF is_multithreading /\ Top(t).proc \in LockedOps THEN FALSE ELSE lock
  /\ IF Len(stack[t]) = 1
     THEN Record(t, TRUE)
     ELSE UNCHANGED <<pre, written, deleted>>
  /\ UNCHANGED <<cache, capacity, calls>>
  /\ Fixed

\* an exception leaves every call of the thread (none catches it) and
\* every "with" block on its way
Raise(t) ==
  /\ t \in active
  /\ stack[t] # << >>
  /\ Top(t).pc = "raise"
  /\ stack' = [stack EXCEPT ![t] = << >>]
  /\ lock' = IF HoldsLock(t) THEN FALSE ELSE lock
  /\ Record(t, FALSE)
  /\ UNCHANGED <<cache, capacity, calls>>
  /\ Fixed

----------------------------------------------------------------------------
(* Specifications *)

\* the keys of the callers that search finds in the dict d
StoredIn(d) == {k \in CallerKeys : SearchValue(d, hash_func(k), k) # None}

\* DataStore.__init__, lines 40-43, and the class body, line 38
Construct(threads) ==
  /\ cache = << >>
  /\ capacity \in 1..MaxCapacity
  /\ lock = FALSE
  /\ is_multithreading \in BOOLEAN
  /\ sha256 \in HashFuncs
  /\ active = threads
  /\ stack = [t \in Threads |-> << >>]
  /\ pre = [t \in Threads |-> NoCall]
  /\ written = [k \in Keys |-> None]
  /\ deleted = {}
  /\ calls = 0
  /\ heap = << >>
  /\ heads = << >>

\* single-threaded use
Init == Construct({"t1"})

\* What the main thread has done with the table before the threads start:
\* nothing, insert("a", 1), or insert("a", 1) and delete("a"), which leaves
\* the emptied bucket in the dict (line 146).
SetupTables ==
  LET h == hash_func("a")
      stored == InsertStoreDict(<< >>, h, "a", 1, FALSE)
  IN { [cache |-> << >>, written |-> None, deleted |-> {}],
       [cache |-> stored, written |-> 1, deleted |-> {}],
       [cache |-> DictPut(stored, h, ChainDelete(DictGet(stored, h), "a")),
        written |-> None, deleted |-> {"a"}] }

\* two threads share a table that the main thread has set up
InitMT ==
  /\ capacity \in 1..MaxCapacity
  /\ lock = FALSE
  /\ is_multithreading \in BOOLEAN
  /\ sha256 \in HashFuncs
  /\ active = Threads
  /\ stack = [t \in Threads |-> << >>]
  /\ pre = [t \in Threads |-> NoCall]
  /\ calls = 0
  /\ heap = << >>
  /\ heads = << >>
  /\ \E s \in SetupTables :
       /\ cache = s.cache
       /\ written = [k \in Keys |-> IF k = "a" THEN s.written ELSE None]
       /\ deleted = s.deleted

Step(t) ==
  \/ CallInsert(t)
  \/ CallUpdate(t)
  \/ CallDelete(t)
  \/ CallSearch(t)
  \/ CallContains(t)
  \/ CallResize(t)
  \/ CallIterate(t)
  \/ Acquire(t)
  \/ InsertSize(t)
  \/ InsertLookup(t)
  \/ InsertStore(t)
  \/ ResizeCheck(t)
  \/ ResizeSetCapacity(t)
  \/ ResizeReset(t)
  \/ ResizeLoop(t)
  \/ UpdateBody(t)
  \/ DeleteBody(t)
  \/ SearchBody(t)
  \/ ContainsBody(t)
  \/ IterateBody(t)
  \/ Return(t)
  \/ Raise(t)

Next == \E t \in Threads : Step(t)

Spec == Init /\ [][Next]_vars

SpecMT == InitMT /\ [][Next]_vars

\* DataStore(capacity): a capacity no insert of the keys reaches
SetupCapacity == Cardinality(Keys) + 1

\* the sequences of distinct keys of the callers
KeySeqs ==
  {ks \in UNION {[1..n -> CallerKeys] : n \in 0..Cardinality(CallerKeys)} :
     \A i, j \in 1..Len(ks) : ks[i] = ks[j] => i = j}

RECURSIVE InsertAll(_, _)
\* the dict after insert(k, 1) for the keys of ks in turn, below capacity
InsertAll(d, ks) ==
  IF ks = << >> THEN d
  ELSE InsertAll(InsertStoreDict(d, hash_func(Head(ks)), Head(ks), 1,
                                 DictIndex(d, hash_func(Head(ks))) # 0),
                 Tail(ks))

\* The tables DataStore(SetupCapacity) holds after inserts of distinct keys
\* and, at most, one successful delete.
ResizeTables ==
  LET full == {[cache |-> InsertAll(<< >>, ks), deleted |-> {}] : ks \in KeySeqs}
  IN full \cup
     UNION {{[cache |-> DeleteOutcome(s.cache, hash_func(k), k).cache, deleted |-> {k}] :
               k \in StoredIn(s.cache)} : s \in full}

\* a single thread calls resize on such a table
InitResize ==
  /\ capacity = SetupCapacity
  /\ lock = FALSE
  /\ is_multithreading \in BOOLEAN
  /\ sha256 \in HashFuncs
  /\ active = {"t1"}
  /\ stack = [t \in Threads |-> << >>]
  /\ pre = [t \in Threads |-> NoCall]
  /\ calls = 0
  /\ heap = << >>
  /\ heads = << >>
  /\ \E s \in ResizeTables :
       /\ cache = s.cache
       /\ written = [k \in Keys |-> IF k \in StoredIn(s.cache) THEN 1 ELSE None]
       /\ deleted = s.deleted

\* resize and what it calls
StepResize(t) ==
  \/ CallResize(t)
  \/ ResizeCheck(t)
  \/ ResizeSetCapacity(t)
  \/ ResizeReset(t)
  \/ ResizeLoop(t)
  \/ Acquire(t)
  \/ InsertSize(t)
  \/ InsertLookup(t)
  \/ InsertStore(t)
  \/ Return(t)
  \/ Raise(t)

NextResize == \E t \in Threads : StepResize(t)

\* the interpreter keeps running the thread: a statement that can be
\* executed is executed
SpecResize == InitResize /\ [][NextResize]_vars /\ WF_vars(NextResize)

----------------------------------------------------------------------------
(* The Node objects.  Single-threaded use without the lock, one action per
   call, with every Node an object of its own and "next" a reference. *)

\* Node(key, value), lines 9-12, stored under a new identity
Alloc(hp, id, key, value) ==
  [i \in DOMAIN hp \cup {id} |->
     IF i = id THEN [key |-> key, value |-> value, next |-> 0] ELSE hp[i]]

\* an identity no live object has
NewId(hp) ==
  CHOOSE i \in 1..(Cardinality(DOMAIN hp) + 1) :
    i \notin DOMAIN hp /\ \A j \in 1..(i - 1) : j \in DOMAIN hp

\* a link that also points the old head at the new node
LinkBoth(hp, id, head) ==
  [hp EXCEPT ![id].next = head, ![head].next = id]

\* insert, line 115: node.next = self.cache[hash_key]
Link(hp, id, head) ==
  [hp EXCEPT ![id].next = head]

RECURSIVE HeapWalk(_, _, _, _, _)
\* The loops of lines 94-113, 126-130 and 141-150: from cur on, the first
\* node with the key and the node before it; node 0 when the walk ends at
\* None, node -1 when it has not ended after fuel steps (it never ends).
HeapWalk(hp, prev, cur, key, fuel) ==
  IF cur = 0 THEN [prev |-> prev, node |-> 0]
  ELSE IF hp[cur].key = key THEN [prev |-> prev, node |-> cur]
  ELSE IF fuel = 0 THEN [prev |-> prev, node |-> -1]
  ELSE HeapWalk(hp, cur, hp[cur].next, key, fuel - 1)

\* the walk from the head of a bucket
HeapFind(hp, head, key) == HeapWalk(hp, 0, head, key, Cardinality(DOMAIN hp))

RECURSIVE HeapInsert(_, _, _)
RECURSIVE HeapRehash(_, _, _)

\* resize, lines 69-81, on the table s = [heap, heads, capacity, error]
HeapResize(s, n) ==
  IF ResizeRejects(n) THEN [s EXCEPT !.error = "InvalidCapacity"]
  ELSE HeapRehash([s EXCEPT !.capacity = n, !.heads = << >>],
                  0, [i \in 1..Len(s.heads) |-> s.heads[i].head])

\* resize, lines 76-79: cur is "node", rest the heads the for loop has
\* still to take from the view of the old dict
HeapRehash(s, cur, rest) ==
  IF s.error # "" THEN s
  ELSE IF cur = 0
  THEN IF rest = << >> THEN s ELSE HeapRehash(s, Head(rest), Tail(rest))
  ELSE LET r == HeapInsert(s, s.heap[cur].key, s.heap[cur].value)
       IN HeapRehash(r, r.heap[cur].next, rest)

\* insert, lines 85-118
HeapInsert(s, key, value) ==
  LET id == NewId(s.heap)
      s0 == [s EXCEPT !.heap = Alloc(s.heap, id, key, value)]
      s1 == IF Len(s0.heads) = s0.capacity
            THEN HeapResize(s0, GrowCapacity(s0.capacity))
            ELSE s0
      h == hash_func(key)
      i == DictIndex(s1.heads, h)
  IN IF s1.error # "" THEN s1
     ELSE IF i = 0
     THEN [s1 EXCEPT !.heads = Append(@, [digest |-> h, head |-> id])]
     ELSE IF s1.heads[i].head = 0
     THEN [s1 EXCEPT !.error = "AttributeError"]
     ELSE LET w == HeapFind(s1.heap, s1.heads[i].head, key) IN
          IF w.node > 0 THEN [s1 EXCEPT !.error = "DuplicateKey"]
          ELSE IF w.node < 0 THEN [s1 EXCEPT !.error = "NeverEnds"]
          ELSE [s1 EXCEPT !.heap = Link(@, id, s1.heads[i].head),
                          !.heads[i].head = id]

\* update, lines 122-132
HeapUpdate(s, key, value) ==
  LET i == DictIndex(s.heads, hash_func(key)) IN
  IF i = 0 THEN [s EXCEPT !.error = "KeyError"]
  ELSE LET w == HeapFind(s.heap, s.heads[i].head, key) IN
       IF w.node > 0 THEN [s EXCEPT !.heap[w.node].value = value]
       ELSE IF w.node < 0 THEN [s EXCEPT !.error = "NeverEnds"]
       ELSE [s EXCEPT !.error = "KeyNotFound"]

\* delete, lines 136-152
HeapDelete(s, key) ==
  LET i == DictIndex(s.heads, hash_func(key)) IN
  IF i = 0 THEN [s EXCEPT !.error = "KeyError"]
  ELSE LET w == HeapFind(s.heap, s.heads[i].head, key) IN
       IF w.node > 0 /\ w.prev > 0
       THEN [s EXCEPT !.heap[w.prev].next = s.heap[w.node].next]
       ELSE IF w.node > 0
       THEN [s EXCEPT !.heads[i].head = s.heap[w.node].next]
       ELSE IF w.node < 0 THEN [s EXCEPT !.error = "NeverEnds"]
       ELSE [s EXCEPT !.error = "KeyNotFound"]

RECURSIVE ChainIds(_, _, _)
\* the identities met from cur on by following next, fuel links at most
ChainIds(hp, cur, fuel) ==
  IF cur = 0 \/ fuel = 0 THEN << >>
  ELSE <<cur>> \o ChainIds(hp, hp[cur].next, fuel - 1)

RECURSIVE Reached(_, _)
\* the identities the dict reaches, bucket by bucket and along every chain
Reached(hp, hd) ==
  IF hd = << >> THEN << >>
  ELSE ChainIds(hp, Head(hd).head, Cardinality(DOMAIN hp) + 1) \o Reached(hp, Tail(hd))

\* The interpreter frees the objects the dict no longer reaches.  An
\* identity has no meaning of its own: the objects that stay are named by
\* their place in the order in which the dict reaches them.
Collect(hp, hd) ==
  LET ids == Reached(hp, hd)
      live == {ids[j] : j \in 1..Len(ids)}
      first(id) == CHOOSE j \in 1..Len(ids) : ids[j] = id /\ \A m \in 1..(j - 1) : ids[m] # id
      name(id) == IF id = 0 THEN 0
                  ELSE Cardinality({x \in live : first(x) <= first(id)})
      named(n) == CHOOSE id \in live : name(id) = n
  IN [heap |-> [n \in 1..Cardinality(live) |->
                  [key |-> hp[named(n)].key, value |-> hp[named(n)].value,
                   next |-> name(hp[named(n)].next)]],
      heads |-> [i \in 1..Len(hd) |-> [digest |-> hd[i].digest, head |-> name(hd[i].head)]]]

\* A call ends, by return or raise, and leaves the table r; a call whose
\* walk never ends leaves nothing.
HeapCall(r) ==
  /\ r.error # "NeverEnds"
  /\ heap' = Collect(r.heap, r.heads).heap
  /\ heads' = Collect(r.heap, r.heads).heads
  /\ capacity' = r.capacity
  /\ UNCHANGED <<cache, lock, is_multithreading, sha256, active, stack,
                 pre, written, deleted, calls>>

HeapTable == [heap |-> heap, heads |-> heads, capacity |-> capacity, error |-> ""]

HeapCallInsert ==
  \E k \in CallerKeys, v \in Values : HeapCall(HeapInsert(HeapTable, k, v))

HeapCallUpdate ==
  \E k \in CallerKeys, v \in Values : HeapCall(HeapUpdate(HeapTable, k, v))

HeapCallDelete ==
  \E k \in CallerKeys : HeapCall(HeapDelete(HeapTable, k))

HeapCallResize ==
  \E n \in -1..MaxCapacity : HeapCall(HeapResize(HeapTable, n))

\* DataStore.__init__, lines 40-43, with the flag false
InitHeap ==
  /\ cache = << >>
  /\ capacity \in 1..MaxCapacity
  /\ lock = FALSE
  /\ is_multithreading = FALSE
  /\ sha256 \in HashFuncs
  /\ active = {"t1"}
  /\ stack = [t \in Threads |-> << >>]
  /\ pre = [t \in Threads |-> NoCall]
  /\ written = [k \in Keys |-> None]
  /\ deleted = {}
  /\ calls = 0
  /\ heap = << >>
  /\ heads = << >>

NextHeap ==
  \/ HeapCallInsert
  \/ HeapCallUpdate
  \/ HeapCallDelete
  \/ HeapCallResize

SpecHeap == InitHeap /\ [][NextHeap]_vars

----------------------------------------------------------------------------
(* What the claims speak of *)

\* the thread's top-level call is at its return statement
Returning(t, op) ==
  /\ t \in active
  /\ Len(stack[t]) = 1
  /\ stack[t][1].proc = op
  /\ stack[t][1].pc = "return"

\* an exception is leaving the thread's top-level call
Raising(t, op, error) ==
  /\ t \in active
  /\ stack[t] # << >>
  /\ stack[t][1].proc = op
  /\ Top(t).pc = "raise"
  /\ Top(t).error = error

\* the thread's top-level call ends, one way or the other
Ending(t, op) ==
  /\ t \in active
  /\ stack[t] # << >>
  /\ stack[t][1].proc = op
  /\ \/ Len(stack[t]) = 1 /\ stack[t][1].pc = "return"
     \/ Top(t).pc = "raise"

\* what search(k) finds in the dict d
Content(d, k) == SearchValue(d, hash_func(k), k)

StoredKeys(d) == {k \in CallerKeys : Content(d, k) # None}

SameContent(d, e) == \A k \in CallerKeys : Content(d, k) = Content(e, k)

\* the thread is between two operations: it runs no call, or its top-level
\* call is at its return or raise statement
Between(t) ==
  \/ stack[t] = << >>
  \/ Len(stack[t]) = 1 /\ stack[t][1].pc = "return"
  \/ Top(t).pc = "raise"

----------------------------------------------------------------------------
(* Claims *)

\* C1: in single-threaded use search(k) returns the value written by the
\* latest successful insert(k, v) or update(k, v), when no successful
\* delete(k) followed that write.
C1_SearchReturnsLatestWrite ==
  \A t \in active :
    (Returning(t, "search") /\ written[stack[t][1].key] # None)
      => stack[t][1].result = written[stack[t][1].key]

\* C1 witness: a search finds the written value of a key in a table that an
\* insert has grown beyond every capacity a caller gives, while another key
\* is deleted.
C1_Witness ==
  \E t \in active :
    /\ Returning(t, "search")
    /\ written[stack[t][1].key] = 2
    /\ stack[t][1].result = 2
    /\ capacity > MaxCapacity
    /\ deleted # {}

\* C2: insert(k, v2) on a table that holds k fails with the duplicate-key
\* error and leaves capacity, size and the result of every search unchanged.
C2_DuplicateInsertLeavesTable ==
  \A t \in active :
    (Ending(t, "insert") /\ Content(pre[t].cache, stack[t][1].key) # None)
      => /\ Raising(t, "insert", "DuplicateKey")
         /\ capacity = pre[t].capacity
         /\ size = Len(pre[t].cache)
         /\ SameContent(cache, pre[t].cache)

\* C3: update(k, v) with no bucket at hash(k) fails with the key-not-found
\* error, the one update raises when the chain holds no node with key k.
C3_UpdateAbsentBucketKeyNotFound ==
  \A t \in active :
    (Ending(t, "update") /\ DictIndex(pre[t].cache, hash_func(stack[t][1].key)) = 0)
      => Raising(t, "update", "KeyNotFound")

\* C4: after a successful delete(k), and until k is inserted again,
\* search(k) returns None and delete(k) fails with the key-not-found error.
C4_DeletedKeyGone ==
  \A t \in active :
    /\ (Returning(t, "search") /\ stack[t][1].key \in deleted)
         => stack[t][1].result = None
    /\ (Ending(t, "delete") /\ stack[t][1].key \in deleted)
         => Raising(t, "delete", "KeyNotFound")

\* C5: in single-threaded use resize(n), n > 0, returns with the result of
\* search(k) the same as before the call, for every key k.
C5_ResizePreservesContent ==
  \A t \in active :
    Returning(t, "resize") => SameContent(cache, pre[t].cache)

\* C5 witness: a resize to less than the number of populated buckets returns
\* (the rehash has grown the table again) with keys stored.
C5_Witness ==
  \E t \in active :
    /\ Returning(t, "resize")
    /\ stack[t][1].n < Len(pre[t].cache)
    /\ capacity > stack[t][1].n
    /\ Cardinality(StoredKeys(cache)) = 3

\* C6: resize(n), n <= 0, fails with the invalid-capacity error and leaves
\* capacity, the buckets, every chain and every value as they were.
C6_InvalidResizeLeavesTable ==
  \A t \in active :
    (Ending(t, "resize") /\ stack[t][1].n <= 0)
      => /\ Raising(t, "resize", "InvalidCapacity")
         /\ cache = pre[t].cache
         /\ capacity = pre[t].capacity

\* C6 witness: resize(0) is refused on a table that holds a chain.
C6_Witness ==
  \E t \in active :
    /\ Raising(t, "resize", "InvalidCapacity")
    /\ stack[t][1].n = 0
    /\ \E i \in 1..Len(cache) : Len(cache[i].chain) > 1

\* C7: an insert that starts with size = capacity = C and returns leaves
\* capacity = ceil(1.5 C); an insert that starts with size < capacity leaves
\* capacity unchanged.
C7_GrowthTrigger ==
  \A t \in active :
    /\ (Returning(t, "insert") /\ Len(pre[t].cache) = pre[t].capacity)
         => /\ 2 * capacity >= 3 * pre[t].capacity
            /\ 2 * capacity < 3 * pre[t].capacity + 2
    /\ (Ending(t, "insert") /\ Len(pre[t].cache) < pre[t].capacity)
         => capacity = pre[t].capacity

\* C7 witness: an insert of a new key into a table of three populated
\* buckets and capacity 3 returns.
C7_Witness ==
  \E t \in active :
    /\ Returning(t, "insert")
    /\ pre[t].capacity = 3
    /\ Cardinality(StoredKeys(pre[t].cache)) = 2
    /\ Len(pre[t].cache) = 3
    /\ Cardinality(StoredKeys(cache)) = 3

\* C8: contains(k), for a key k of a caller, is true exactly when the table
\* has a bucket entry at hash(k).
C8_ContainsIffBucket ==
  \A t \in active :
    (Returning(t, "contains") /\ stack[t][1].key \in CallerKeys)
      => (stack[t][1].result = 1 <=> DictIndex(cache, hash_func(stack[t][1].key)) # 0)

\* the thread is inside the body of insert, update, delete, search or iterate
InBody(t) ==
  \E i \in 1..Len(stack[t]) :
    stack[t][i].proc \in LockedOps /\ stack[t][i].pc # "acquire"

\* C9: no two threads are inside the bodies of insert, update, delete,
\* search and iterate at the same time, whatever the concurrency flag is.
C9_MutualExclusion ==
  \A t, u \in active : (t # u) => ~(InBody(t) /\ InBody(u))

\* C10: every call returns or raises: as long as a call is running, some
\* thread can take a step.
C10_EveryCallCompletes ==
  (\A t \in active : stack[t] = << >>) \/ ENABLED Next

\* C12: in single-threaded use size <= capacity holds between operations,
\* also after a resize to a capacity below the number of stored keys.
C12_SizeWithinCapacity ==
  \A t \in active : Between(t) => size <= capacity

\* C12 witness: resize(n) returns on a table that holds more than n keys in
\* more than n buckets.
C12_Witness ==
  \E t \in active :
    /\ Returning(t, "resize")
    /\ stack[t][1].n < Len(pre[t].cache)
    /\ stack[t][1].n < Cardinality(StoredKeys(cache))
    /\ size = Len(pre[t].cache)

\* C13: an update or delete that raises leaves the table as it was at the
\* call: every bucket entry, every chain, every value and the capacity.
C13_FailedCallLeavesTable ==
  \A t \in active :
    ((Ending(t, "update") \/ Ending(t, "delete")) /\ Top(t).pc = "raise")
      => /\ cache = pre[t].cache
         /\ capacity = pre[t].capacity

\* C13 witness: delete(k) raises the key-not-found error on a bucket whose
\* chain holds nodes with other keys.
C13_Witness ==
  \E t \in active :
    /\ Raising(t, "delete", "KeyNotFound")
    /\ Len(DictGet(cache, hash_func(stack[t][1].key))) = 2

\* the buckets of the dict whose chain holds at least one node
PopulatedBuckets(d) == {i \in 1..Len(d) : d[i].chain # << >>}

\* C14: between operations size is the number of digests whose bucket holds
\* at least one node, so the delete of the only node of a bucket takes one
\* off size.
C14_SizeCountsPopulatedBuckets ==
  \A t \in active : Between(t) => size = Cardinality(PopulatedBuckets(cache))

\* resize(n) on the dict d meets an insert that starts with size = n: d has
\* more than n populated buckets, or n of them and a second node in the
\* last one
RehashGrows(d, n) ==
  LET p == PopulatedBuckets(d) IN
  \/ Cardinality(p) > n
  \/ /\ Cardinality(p) = n
     /\ \E i \in p : (\A j \in p : j <= i) /\ Len(d[i].chain) > 1

\* C15 as stated: when a single-threaded resize(n), n > 0, returns,
\* capacity = n, whatever the table held.
C15_ResizeSetsCapacity ==
  \A t \in active :
    Returning(t, "resize") => capacity = stack[t][1].n

\* C15 amended: when a single-threaded resize(n), n > 0, returns,
\* capacity = n if no insert of the rehash started with size = n, and
\* capacity > n if one did, as on a table with more than n populated buckets.
C15_ResizeSetsCapacityUnlessGrown ==
  \A t \in active :
    Returning(t, "resize")
      => IF RehashGrows(pre[t].cache, stack[t][1].n)
         THEN capacity > stack[t][1].n
         ELSE capacity = stack[t][1].n

\* C15 witness: resize(n) returns on a table with more than n populated
\* buckets, with every bucket rehashed and a capacity above n.
C15_Witness ==
  \E t \in active :
    /\ Returning(t, "resize")
    /\ Cardinality(PopulatedBuckets(pre[t].cache)) > stack[t][1].n
    /\ capacity > stack[t][1].n
    /\ Len(cache) = Cardinality(PopulatedBuckets(pre[t].cache))

\* the calls of resize that are active in the thread
ResizeDepth(t) ==
  Cardinality({i \in 1..Len(stack[t]) : stack[t][i].proc = "resize"})

RECURSIVE FirstAtLeast(_, _)
\* the first value of n, ceil(1.5 n), ceil(1.5 ceil(1.5 n)), ... that is >= k
FirstAtLeast(n, k) ==
  IF n >= k THEN n ELSE FirstAtLeast(GrowCapacity(n), k)

\* the largest size an insert of the rehash of d starts with, plus one: the
\* populated buckets of d, and one more when the last of them in dict order
\* holds more than one node
RehashLoad(d) ==
  LET p == PopulatedBuckets(d) IN
  Cardinality(p)
    + (IF \E i \in p : (\A j \in p : j <= i) /\ Len(d[i].chain) > 1 THEN 1 ELSE 0)

\* a top-level resize(n), n > 0, runs in the thread without the lock in use
ResizeRuns(t) ==
  /\ ~is_multithreading
  /\ stack[t] # << >>
  /\ stack[t][1].proc = "resize"
  /\ stack[t][1].n > 0

\* C16 as stated, without its termination part: with locking disabled at
\* most two calls of resize are nested, and when a top-level resize(n)
\* returns capacity is the first value of n, ceil(1.5 n), ... that is >= the
\* number of stored keys.
C16_ResizeEndsAtKeyCount ==
  \A t \in active :
    ResizeRuns(t)
      => /\ ResizeDepth(t) <= 2
         /\ Returning(t, "resize")
              => capacity = FirstAtLeast(stack[t][1].n,
                                         Cardinality(StoredKeys(pre[t].cache)))

\* C16 amended: with locking disabled every top-level resize(n), n > 0,
\* ends; at most two calls of resize are nested; and when it returns
\* capacity is the first value of n, ceil(1.5 n), ... that is >= the
\* number of populated buckets, counted one higher when the last populated
\* bucket holds more than one node.
C16_ResizeEndsAtBucketCount ==
  /\ [](\A t \in active :
          ResizeRuns(t)
            => /\ ResizeDepth(t) <= 2
               /\ Returning(t, "resize")
                    => capacity = FirstAtLeast(stack[t][1].n, RehashLoad(pre[t].cache)))
  /\ \A t \in Threads : ResizeRuns(t) ~> (stack[t] = << >>)

\* C16 witness: a top-level resize returns after a resize that one of its
\* inserts started has grown the capacity twice.
C16_Witness ==
  \E t \in active :
    /\ ResizeRuns(t)
    /\ Returning(t, "resize")
    /\ capacity > GrowCapacity(stack[t][1].n)
    /\ Cardinality(StoredKeys(cache)) > Len(cache)

\* the chain of the bucket h of the dict d, empty when d has no such bucket
ChainAt(d, h) == IF DictIndex(d, h) = 0 THEN << >> ELSE DictGet(d, h)

Reverse(chain) == [i \in 1..Len(chain) |-> chain[Len(chain) + 1 - i]]

\* the dict e is the dict d less one node with the key, of the bucket h:
\* the other nodes of the chain keep key, value and order, and the other
\* buckets are the same
OneNodeRemoved(d, e, h, key) ==
  /\ Len(e) = Len(d)
  /\ \A i \in 1..Len(d) :
       /\ e[i].digest = d[i].digest
       /\ d[i].digest # h => e[i].chain = d[i].chain
  /\ \E j \in 1..Len(ChainAt(d, h)) :
       /\ ChainAt(d, h)[j].key = key
       /\ ChainAt(e, h) = [m \in 1..(Len(ChainAt(d, h)) - 1) |->
                            IF m < j THEN ChainAt(d, h)[m] ELSE ChainAt(d, h)[m + 1]]

\* C17 as stated: a delete(k) that returns has removed exactly the node
\* with key k and left capacity alone; an insert that returns on a bucket
\* that held nodes has put the new node before the previous chain, which
\* follows it in its order.
C17_DeleteAndInsertFrame ==
  \A t \in active :
    LET f == stack[t][1]
        h == hash_func(f.key)
    IN /\ Returning(t, "delete")
            => /\ OneNodeRemoved(pre[t].cache, cache, h, f.key)
               /\ capacity = pre[t].capacity
       /\ (Returning(t, "insert") /\ ChainAt(pre[t].cache, h) # << >>)
            => ChainAt(cache, h) = <<Node(f.key, f.value)>> \o ChainAt(pre[t].cache, h)

\* C17 amended: as stated for delete; an insert that returns on a bucket
\* that held nodes has put the new node before the previous chain, which
\* follows it in its order when the insert started with size < capacity and
\* in the reverse order when it started with size = capacity.
C17_DeleteAndInsertFrameUnlessGrown ==
  \A t \in active :
    LET f == stack[t][1]
        h == hash_func(f.key)
    IN /\ Returning(t, "delete")
            => /\ OneNodeRemoved(pre[t].cache, cache, h, f.key)
               /\ capacity = pre[t].capacity
       /\ (Returning(t, "insert") /\ ChainAt(pre[t].cache, h) # << >>)
            => ChainAt(cache, h) =
                 <<Node(f.key, f.value)>> \o
                   (IF Len(pre[t].cache) = pre[t].capacity
                    THEN Reverse(ChainAt(pre[t].cache, h))
                    ELSE ChainAt(pre[t].cache, h))

\* C17 witness: an insert that started with size = capacity returns on a
\* bucket that held two nodes.
C17_Witness ==
  \E t \in active :
    /\ Returning(t, "insert")
    /\ Len(ChainAt(pre[t].cache, hash_func(stack[t][1].key))) = 2
    /\ Len(pre[t].cache) = pre[t].capacity
    /\ Len(ChainAt(cache, hash_func(stack[t][1].key))) = 3

\* C18: with the concurrency flag false, when two threads have run
\* insert(k, v1) and insert(k, v2) at the same time on a table that did not
\* hold k, one call returns, the other raises the duplicate-key error, and
\* the chain at hash(k) holds one node with key k.  Stated for a table in
\* which no delete has left an emptied bucket.
C18_OneConcurrentInsertWins ==
  \A t, u \in active :
    ( /\ t # u
      /\ ~is_multithreading
      /\ Ending(t, "insert")
      /\ Ending(u, "insert")
      /\ stack[t][1].key = stack[u][1].key
      /\ written[stack[t][1].key] = None
      /\ deleted = {} )
      => LET k == stack[t][1].key
             chain == ChainAt(cache, hash_func(k))
         IN /\ \/ Returning(t, "insert") /\ Raising(u, "insert", "DuplicateKey")
               \/ Returning(u, "insert") /\ Raising(t, "insert", "DuplicateKey")
            /\ Cardinality({i \in 1..Len(chain) : chain[i].key = k}) = 1

\* a top-level resize(n), n > 0, is running in the thread or at its return
DirectResize(u) ==
  /\ stack[u] # << >>
  /\ stack[u][1].proc = "resize"
  /\ stack[u][1].n > 0

\* C19: while a thread runs a direct resize(n), n > 0, a search(k) of
\* another thread for a key k stored before and not deleted returns k's
\* value; and the new key of an insert of another thread that overlaps the
\* resize is found in the table when both calls are at their return.
C19_ResizeHidesNothing ==
  \A t, u \in active :
    (t # u /\ DirectResize(u))
      => /\ (Returning(t, "search") /\ written[stack[t][1].key] # None)
              => stack[t][1].result = written[stack[t][1].key]
         /\ ( /\ Returning(t, "insert")
              /\ written[stack[t][1].key] = None
              /\ Returning(u, "resize") )
              => Content(cache, stack[t][1].key) = stack[t][1].value

\* C20: with locking enabled the lock is free in every state where no
\* thread is inside an operation, so also after an insert, update or delete
\* that ended by raising.
C20_LockFreeWhenIdle ==
  (is_multithreading /\ \A t \in active : stack[t] = << >>) => ~lock

\* C20 witness: with locking enabled a delete is at its raise of the
\* key-not-found error, holding the lock, on a table that holds keys and
\* from which a key was deleted before.
C20_Witness ==
  \E t \in active :
    /\ is_multithreading
    /\ lock
    /\ Raising(t, "delete", "KeyNotFound")
    /\ StoredKeys(cache) # {}
    /\ deleted # {}

\* following next from the head ends at None: no node is met twice
EndsAtNone(hp, head) ==
  LET ids == ChainIds(hp, head, Cardinality(DOMAIN hp) + 1)
  IN /\ Len(ids) <= Cardinality(DOMAIN hp)
     /\ \A i, j \in 1..Len(ids) : ids[i] = ids[j] => i = j

\* no two nodes met from the head on hold the same key
DistinctKeys(hp, head) ==
  LET ids == ChainIds(hp, head, Cardinality(DOMAIN hp) + 1)
  IN \A i, j \in 1..Len(ids) : hp[ids[i]].key = hp[ids[j]].key => ids[i] = ids[j]

\* C11: after every single-threaded sequence of insert, update, delete and
\* resize calls, with digests that collide, no chain holds two nodes with
\* the same key and no chain of next links runs in a cycle.
C11_ChainsDistinctAndAcyclic ==
  \A i \in 1..Len(heads) :
    /\ EndsAtNone(heap, heads[i].head)
    /\ DistinctKeys(heap, heads[i].head)

\* C11 witness: a chain of three nodes in a table that has been grown
\* beyond every capacity a caller gives, next to a second bucket.
C11_Witness ==
  /\ capacity > MaxCapacity
  /\ Len(heads) = 2
  /\ \E i \in 1..Len(heads) :
       Len(ChainIds(heap, heads[i].head, Cardinality(DOMAIN heap) + 1)) = 3

====
